---------------------------- MODULE Spec2Model ----------------------------
(***************************************************************************)
(* Model of lib/certs.go: format detection (formatForFile), the four      *)
(* batch readers (ReadPEM, ReadPEMFromFiles, ReadX509, ReadX509FromFiles), *)
(* the per-format decoders of readCertsFromStream, the PEM block scanner   *)
(* (pemScanner) and the certificate adapter (pemToX509).                   *)
(*                                                                         *)
(* Go strings the code inspects character by character (file names,       *)
(* extensions, aliases) are sequences of one-character strings; format     *)
(* names, which the code only compares, are TLA+ strings.  A 32-bit magic  *)
(* number is a pair of 16-bit halves [hi, lo].                             *)
(***************************************************************************)
EXTENDS Integers, Sequences, FiniteSets, TLC

\* ------------------------------------------------------------- bounds

\* Longest input list handed to a reader.
MaxInputs == 2

\* ------------------------------------------------------------ strings

nameHeader == <<"f","r","i","e","n","d","l","y","N","a","m","e">>

fileHeader == <<"o","r","i","g","i","n","F","i","l","e">>

\* os.Stdin.Name()
StdinName == <<"/","d","e","v","/","s","t","d","i","n">>

EmptyString == <<>>

UpperLetters == <<"A","B","C","D","E","F","G","H","I","J","K","L","M",
                  "N","O","P","Q","R","S","T","U","V","W","X","Y","Z">>

LowerLetters == <<"a","b","c","d","e","f","g","h","i","j","k","l","m",
                  "n","o","p","q","r","s","t","u","v","w","x","y","z">>

LowerChar(c) ==
    IF \E i \in 1..26 : UpperLetters[i] = c
    THEN LowerLetters[CHOOSE i \in 1..26 : UpperLetters[i] = c]
    ELSE c

\* strings.ToLower
ToLower(s) == [i \in 1..Len(s) |-> LowerChar(s[i])]

\* filepath.Ext: the suffix starting at the last dot of the last path element.
Ext(path) ==
    LET dots == {i \in 1..Len(path) :
                    /\ path[i] = "."
                    /\ \A j \in i..Len(path) : path[j] # "/"}
    IN  IF dots = {} THEN EmptyString
        ELSE SubSeq(path, CHOOSE i \in dots : \A k \in dots : k <= i, Len(path))

\* The extension table, as (extension, format) pairs.
fileExtToFormat ==
    { <<<<".","p","e","m">>, "PEM">>,
      <<<<".","c","r","t">>, "PEM">>,
      <<<<".","p","7","b">>, "PEM">>,
      <<<<".","p","7","c">>, "PEM">>,
      <<<<".","p","1","2">>, "PKCS12">>,
      <<<<".","p","f","x">>, "PKCS12">>,
      <<<<".","j","c","e","k","s">>, "JCEKS">>,
      <<<<".","j","k","s">>, "JCEKS">>,
      <<<<".","d","e","r">>, "DER">> }

ExtKnown(e) == \E p \in fileExtToFormat : p[1] = e

ExtFormat(e) == (CHOOSE p \in fileExtToFormat : p[1] = e)[2]

\* ------------------------------------------------------ 32-bit magic

RECURSIVE BitAnd(_, _)
\* Bitwise AND of two naturals.
BitAnd(a, b) ==
    IF a = 0 \/ b = 0 THEN 0
    ELSE (a % 2) * (b % 2) + 2 * BitAnd(a \div 2, b \div 2)

U32(hi, lo) == [hi |-> hi, lo |-> lo]

And32(m, mask) == U32(BitAnd(m.hi, mask.hi), BitAnd(m.lo, mask.lo))

\* binary.BigEndian.Uint32 of four bytes.
BigEndianUint32(data) == U32(data[1] * 256 + data[2], data[3] * 256 + data[4])

\* bufio.Reader.Peek(4): the first four bytes, or a failure on a shorter stream.
PeekOK(prefix) == Len(prefix) >= 4

\* GuessFromMagic with the DER test on the fourth byte instead of the third.
GuessFromMagic_FourthByte(data) ==
    LET magic == BigEndianUint32(data)
    IN  IF magic = U32(52942, 52942) \/ magic = U32(65261, 65261)
        THEN "JCEKS"
        ELSE IF magic = U32(11565, 11565) \/ magic = U32(17231, 20046)
        THEN "PEM"
        ELSE IF And32(magic, U32(65535, 0)) = U32(12418, 0)
        THEN IF And32(magic, U32(0, 255)) = U32(0, 3)
             THEN "DER"
             ELSE "PKCS12"
        ELSE ""

\* The magic-number heuristics of formatForFile, on four peeked bytes; "" when
\* nothing matches.
GuessFromMagic(data) ==
    LET magic == BigEndianUint32(data)
    IN  IF magic = U32(52942, 52942) \/ magic = U32(65261, 65261)      \* 0xCECECECE, 0xFEEDFEED
        THEN "JCEKS"
        ELSE IF magic = U32(11565, 11565) \/ magic = U32(17231, 20046) \* 0x2D2D2D2D, 0x434F4E4E
        THEN "PEM"
        ELSE IF And32(magic, U32(65535, 0)) = U32(12418, 0)            \* &0xFFFF0000 == 0x30820000
        THEN IF And32(magic, U32(0, 65280)) = U32(0, 768)              \* &0x0000FF00 == 0x0300
             THEN "DER"
             ELSE "PKCS12"
        ELSE ""

\* formatForFile with the magic numbers tried before the extension table.
formatForFile_SniffFirst(prefix, filename, format) ==
    IF format # ""
    THEN [format |-> format, err |-> FALSE, peeked |-> FALSE]
    ELSE IF PeekOK(prefix) /\ GuessFromMagic(SubSeq(prefix, 1, 4)) # ""
    THEN [format |-> GuessFromMagic(SubSeq(prefix, 1, 4)), err |-> FALSE, peeked |-> TRUE]
    ELSE IF ExtKnown(ToLower(Ext(filename)))
    THEN [format |-> ExtFormat(ToLower(Ext(filename))), err |-> FALSE, peeked |-> TRUE]
    ELSE [format |-> "", err |-> TRUE, peeked |-> TRUE]

\* formatForFile with a failed peek taken for "nothing to go by" instead of an
\* error.
formatForFile_PeekIgnored(prefix, filename, format) ==
    IF format # ""
    THEN [format |-> format, err |-> FALSE, peeked |-> FALSE]
    ELSE IF ExtKnown(ToLower(Ext(filename)))
    THEN [format |-> ExtFormat(ToLower(Ext(filename))), err |-> FALSE, peeked |-> FALSE]
    ELSE IF ~PeekOK(prefix)
    THEN [format |-> "", err |-> FALSE, peeked |-> TRUE]
    ELSE LET guess == GuessFromMagic(SubSeq(prefix, 1, 4))
         IN  [format |-> guess, err |-> guess = "", peeked |-> TRUE]

\* formatForFile(file, filename, format): the returned (format, err), err TRUE
\* for a non-nil error, and whether file.Peek was reached.
formatForFile(prefix, filename, format) ==
    IF format # ""
    THEN [format |-> format, err |-> FALSE, peeked |-> FALSE]
    ELSE IF ExtKnown(ToLower(Ext(filename)))
    THEN [format |-> ExtFormat(ToLower(Ext(filename))), err |-> FALSE, peeked |-> FALSE]
    ELSE IF ~PeekOK(prefix)
    THEN [format |-> "", err |-> TRUE, peeked |-> TRUE]
    ELSE LET guess == GuessFromMagic(SubSeq(prefix, 1, 4))
         IN  [format |-> guess, err |-> guess = "", peeked |-> TRUE]

\* ------------------------------------------------- blocks and headers

\* map[string]string{}
NoHeaders == [k \in {} |-> EmptyString]

Header(k, v) == [x \in {k} |-> v]

mergeHeaders(baseHeaders, extraHeaders) ==
    [k \in DOMAIN baseHeaders \cup DOMAIN extraHeaders |->
        IF k \in DOMAIN extraHeaders THEN extraHeaders[k] ELSE baseHeaders[k]]

\* Payload bytes, by what the external parsers make of them: der is "x509"
\* (one certificate), "p7" (a PKCS#7 envelope), "pkcs1"/"sec1" (a marshalled
\* key) or "junk"; ids are the certificates (or the key) inside.
Bytes(der, ids) == [der |-> der, ids |-> ids]

Block(type, bytes, headers) == [Type |-> type, Bytes |-> bytes, Headers |-> headers]

\* An x509.Certificate, with its Raw bytes.
Cert(id) == [Raw |-> Bytes("x509", <<id>>)]

\* x509.ParseCertificate: ok and the certificate.
ParseCertificate(bytes) ==
    IF bytes.der = "x509"
    THEN [ok |-> TRUE, cert |-> [Raw |-> bytes]]
    ELSE [ok |-> FALSE, cert |-> [Raw |-> bytes]]

\* pkcs7.ExtractCertificates: ok and the certificates of the envelope, in order.
ExtractCertificates(bytes) ==
    IF bytes.der = "p7"
    THEN [ok |-> TRUE, certs |-> [i \in 1..Len(bytes.ids) |-> Cert(bytes.ids[i])]]
    ELSE [ok |-> FALSE, certs |-> <<>>]

EncodeX509ToPEM(cert, headers) == Block("CERTIFICATE", cert.Raw, headers)

\* A pkcs7.SignedDataEnvelope is modelled by its Raw bytes.
pkcs7ToPem(block, headers) == Block("PKCS7", block.Raw, headers)

\* keyToPem leaving the headers out of the key block.
keyToPem_NoHeaders(key, headers) ==
    IF key.kind = "rsa"
    THEN [err |-> FALSE, block |-> Block("RSA PRIVATE KEY", Bytes("pkcs1", <<key.id>>), NoHeaders)]
    ELSE IF key.kind = "ec"
    THEN [err |-> FALSE, block |-> Block("EC PRIVATE KEY", Bytes("sec1", <<key.id>>), NoHeaders)]
    ELSE [err |-> TRUE, block |-> Block("", Bytes("junk", <<>>), NoHeaders)]

\* keyToPem: the block and whether an error is returned.  A key is
\* [kind, id]: kind "rsa", "ec", "ec-badcurve" (MarshalECPrivateKey fails) or
\* any other key type.
keyToPem(key, headers) ==
    IF key.kind = "rsa"
    THEN [err |-> FALSE, block |-> Block("RSA PRIVATE KEY", Bytes("pkcs1", <<key.id>>), headers)]
    ELSE IF key.kind = "ec"
    THEN [err |-> FALSE, block |-> Block("EC PRIVATE KEY", Bytes("sec1", <<key.id>>), headers)]
    ELSE [err |-> TRUE, block |-> Block("", Bytes("junk", <<>>), headers)]

\* pemToX509 without the switch on the block type.
pemToX509_AnyType(block) ==
    IF ParseCertificate(block.Bytes).ok
    THEN <<ParseCertificate(block.Bytes).cert>>
    ELSE IF ExtractCertificates(block.Bytes).ok
    THEN ExtractCertificates(block.Bytes).certs
    ELSE <<>>

\* pemToX509(callback)(block): the certificates handed to callback, in order.
pemToX509(block) ==
    IF block.Type = "CERTIFICATE"
    THEN IF ParseCertificate(block.Bytes).ok
         THEN <<ParseCertificate(block.Bytes).cert>>
         ELSE <<>>
    ELSE IF block.Type = "PKCS7"
    THEN IF ExtractCertificates(block.Bytes).ok
         THEN ExtractCertificates(block.Bytes).certs
         ELSE <<>>
    ELSE <<>>

\* The headers readCertsFromStream starts from.
InitialHeaders(filename) ==
    IF filename # EmptyString /\ filename # StdinName
    THEN Header(fileHeader, filename)
    ELSE NoHeaders

\* -------------------------------------------------------- PEM scanner

\* A stream, as pem.Decode sees it, is a sequence of segments: a well-formed
\* PEM block (isBlock) or other bytes, each of a size in units of 16 KiB.
Segment(size, block) == [size |-> size, isBlock |-> TRUE, block |-> block]

Junk(size) ==
    [size |-> size, isBlock |-> FALSE, block |-> Block("", Bytes("junk", <<>>), NoHeaders)]

RECURSIVE SizeOf(_)
\* len(data)
SizeOf(data) == IF data = <<>> THEN 0 ELSE Head(data).size + SizeOf(Tail(data))

\* bufio.MaxScanTokenSize (64 KiB), the buffer limit of the bufio.Scanner that
\* pemScanner builds, in the same units.
MaxScanTokenSize == 4

\* pem.Decode(data): the first block in data and the rest after it; found is
\* FALSE (block nil) when data holds no complete block.
pemDecode(data) ==
    LET hits == {i \in 1..Len(data) : data[i].isBlock}
    IN  IF hits = {}
        THEN [found |-> FALSE, block |-> Junk(0).block, rest |-> data]
        ELSE LET i == CHOOSE h \in hits : \A o \in hits : h <= o
             IN  [found |-> TRUE, block |-> data[i].block,
                  rest |-> SubSeq(data, i + 1, Len(data))]

\* The split function pemScanner installs: (advance, token).
pemSplit(data) ==
    LET d == pemDecode(data)
        size == Len(data) - Len(d.rest)
    IN  IF d.found
        THEN [advance |-> size, token |-> SubSeq(data, 1, size)]
        ELSE [advance |-> 0, token |-> <<>>]

RECURSIVE ScanWindow(_, _)
\* bufio.Scanner.Scan on the unread input `rest`, with the first j segments
\* buffered: split is tried on the buffer; without a token the buffer grows by
\* reading, until the input ends (Scan returns false) or the buffer would pass
\* MaxScanTokenSize (ErrTooLong, Scan returns false).
ScanWindow(rest, j) ==
    LET s == pemSplit(SubSeq(rest, 1, j))
    IN  IF s.advance > 0
        THEN [ok |-> TRUE, advance |-> s.advance, token |-> s.token, tooLong |-> FALSE]
        ELSE IF j = Len(rest)
        THEN [ok |-> FALSE, advance |-> 0, token |-> <<>>, tooLong |-> FALSE]
        ELSE IF SizeOf(SubSeq(rest, 1, j + 1)) > MaxScanTokenSize
        THEN [ok |-> FALSE, advance |-> 0, token |-> <<>>, tooLong |-> TRUE]
        ELSE ScanWindow(rest, j + 1)

Scan(rest) == ScanWindow(rest, 0)

\* ------------------------------------------------------------ inputs

\* What the external parsers make of a stream's bytes.
NoX509 == [ok |-> FALSE, certs |-> <<>>]

NoP7 == [ok |-> FALSE, envs |-> <<>>]

NoP12 == [ok |-> FALSE, password |-> "", blocks |-> <<>>]

NoKeyStore == [ok |-> FALSE, password |-> "", certs |-> <<>>, keys |-> <<>>]

\* An input: the file's name, the first bytes of its stream (at most four are
\* kept), and the stream as each decoder sees it: segs for pem.Decode, x509
\* for x509.ParseCertificates, p7 for pkcs7.ParseSignedData, p12 for
\* pkcs12.ToPEM, ks for the jceks package.
Input(name, prefix, segs, x509, p7, p12, ks) ==
    [name |-> name, prefix |-> prefix, segs |-> segs, x509 |-> x509, p7 |-> p7,
     p12 |-> p12, ks |-> ks]

Alias(a) == <<a>>

PemCert(id, headers) == Segment(1, Block("CERTIFICATE", Bytes("x509", <<id>>), headers))

\* "a.pem": three concatenated certificates; the second carries an originFile
\* header of its own.
InCertsPem ==
    Input(<<"a",".","p","e","m">>, <<45, 45, 45, 45>>,
          <<PemCert("c1", NoHeaders),
            PemCert("c2", Header(fileHeader, <<"o","l","d">>)),
            PemCert("c3", NoHeaders)>>,
          NoX509, NoP7, NoP12, NoKeyStore)

\* "mix": s_client output (starts with CONN): text, a key, a PKCS7 bundle, a
\* CERTIFICATE and a PKCS7 block whose payloads do not parse.
InMixed ==
    Input(<<"m","i","x">>, <<67, 79, 78, 78>>,
          <<Junk(1),
            Segment(1, Block("RSA PRIVATE KEY", Bytes("pkcs1", <<"k1">>), NoHeaders)),
            Segment(1, Block("PKCS7", Bytes("p7", <<"c2", "c3">>), NoHeaders)),
            Segment(1, Block("CERTIFICATE", Bytes("junk", <<>>), NoHeaders)),
            Segment(1, Block("PKCS7", Bytes("x509", <<"c4">>), NoHeaders))>>,
          NoX509, NoP7, NoP12, NoKeyStore)

\* "big.pem": a certificate, an 80 KiB PKCS7 bundle, a certificate.
InBigPem ==
    Input(<<"b","i","g",".","p","e","m">>, <<45, 45, 45, 45>>,
          <<PemCert("c1", NoHeaders),
            Segment(5, Block("PKCS7", Bytes("p7", <<"c2", "c3">>), NoHeaders)),
            PemCert("c4", NoHeaders)>>,
          NoX509, NoP7, NoP12, NoKeyStore)

\* "C.DER": two DER certificates.
InDer ==
    Input(<<"C",".","D","E","R">>, <<48, 130, 3, 74>>, <<Junk(1)>>,
          [ok |-> TRUE, certs |-> <<"c1", "c2">>], NoP7, NoP12, NoKeyStore)

\* "chain": DER PKCS#7 signed data, two envelopes.
InP7Der ==
    Input(<<"c","h","a","i","n">>, <<48, 130, 3, 16>>, <<Junk(1)>>, NoX509,
          [ok |-> TRUE, envs |-> <<Bytes("p7", <<"c1", "c2">>), Bytes("p7", <<"c3">>)>>],
          NoP12, NoKeyStore)

\* "s.p12": a PKCS#12 archive with a certificate and its key.
InP12 ==
    Input(<<"s",".","p","1","2">>, <<48, 130, 10, 17>>, <<Junk(1)>>, NoX509, NoP7,
          [ok |-> TRUE, password |-> "secret",
           blocks |-> <<Block("CERTIFICATE", Bytes("x509", <<"c1">>),
                              Header(nameHeader, Alias("m"))),
                        Block("PRIVATE KEY", Bytes("pkcs8", <<"k1">>),
                              Header(nameHeader, Alias("m")))>>],
          NoKeyStore)

\* "p": a PKCS#12 archive without a name to go by (sniffed).
InP12Anon ==
    Input(<<"p">>, <<48, 130, 10, 17>>, <<Junk(1)>>, NoX509, NoP7,
          [ok |-> TRUE, password |-> "secret",
           blocks |-> <<Block("CERTIFICATE", Bytes("x509", <<"c2">>),
                              Header(nameHeader, Alias("n")))>>],
          NoKeyStore)

\* "k.jceks": two trusted certificates, an RSA key with a two-certificate
\* chain, an EC key with a one-certificate chain.
InJceks ==
    Input(<<"k",".","j","c","e","k","s">>, <<206, 206, 206, 206>>, <<Junk(1)>>,
          NoX509, NoP7, NoP12,
          [ok |-> TRUE, password |-> "secret",
           certs |-> <<[alias |-> Alias("a"), cert |-> Cert("c1")],
                       [alias |-> Alias("b"), cert |-> Cert("c2")]>>,
           keys |-> <<[alias |-> Alias("r"), password |-> "secret",
                       key |-> [kind |-> "rsa", id |-> "k1"],
                       chain |-> <<Cert("c3"), Cert("c4")>>],
                      [alias |-> Alias("e"), password |-> "secret",
                       key |-> [kind |-> "ec", id |-> "k2"],
                       chain |-> <<Cert("c1")>>]>>])

\* Standard input: a JKS store with a DSA key (no encoder for it) and an RSA key.
InJksStdin ==
    Input(StdinName, <<254, 237, 254, 237>>, <<Junk(1)>>, NoX509, NoP7, NoP12,
          [ok |-> TRUE, password |-> "secret",
           certs |-> <<>>,
           keys |-> <<[alias |-> Alias("d"), password |-> "secret",
                       key |-> [kind |-> "dsa", id |-> "k3"],
                       chain |-> <<Cert("c2")>>],
                      [alias |-> Alias("r"), password |-> "secret",
                       key |-> [kind |-> "rsa", id |-> "k1"],
                       chain |-> <<Cert("c3")>>]>>])

\* "d.pem/e": an empty file (the directory has the extension, the file none).
\* x509.ParseCertificates of no bytes is an empty list and no error.
InEmpty ==
    Input(<<"d",".","p","e","m","/","e">>, <<>>, <<>>,
          [ok |-> TRUE, certs |-> <<>>], NoP7, NoP12, NoKeyStore)

\* "t": three bytes only.
InShort ==
    Input(<<"t">>, <<48, 130, 3>>, <<Junk(1)>>, NoX509, NoP7, NoP12, NoKeyStore)

\* "x.txt": a zip archive (PK\003\004).
InZip ==
    Input(<<"x",".","t","x","t">>, <<80, 75, 3, 4>>, <<Junk(1)>>, NoX509, NoP7, NoP12,
          NoKeyStore)

Catalogue ==
    {InCertsPem, InMixed, InBigPem, InDer, InP7Der, InP12, InP12Anon, InJceks,
     InJksStdin, InEmpty, InShort, InZip}

\* The --format values tried: none, a supported one, an unsupported one.
Hints == {"", "DER", "ZIP"}

\* What the password provider may answer.
Passwords == {"secret", "wrong"}

SupportedFormats == {"PEM", "DER", "PKCS12", "JCEKS"}

\* The orders in which a listing of n map entries may come out.
Orders(n) == {p \in [1..n -> 1..n] : \A i, j \in 1..n : p[i] = p[j] => i = j}

\* ------------------------------------------------------------- state

VARIABLES
    inputs,     \* the files/readers handed to the reader, in order
    hint,       \* the format argument
    fromFiles,  \* TRUE for ReadPEMFromFiles/ReadX509FromFiles, FALSE for ReadPEM/ReadX509
    x509Mode,   \* TRUE for ReadX509/ReadX509FromFiles (callback wrapped by pemToX509)
    pc,         \* "loop", "decode", "jceks" or "done"
    idx,        \* index of the input the loop is at
    format,     \* the format resolved for the current input
    pos,        \* segments the PEM scanner has consumed
    store,      \* the loaded keystore's listings: [certs, keys]
    ci,         \* certificate aliases emitted so far
    ki,         \* private-key aliases handled so far
    result,     \* what the reader returned: "running", "nil", "error"
    detected,   \* per input handled, what formatForFile returned
    emitted,    \* blocks handed to readCertsFromStream's callback: [input, block]
    consumed,   \* certificates handed to the certificate consumer: [input, cert]
    pwCalls,    \* password provider calls: [input, alias, answer, emittedBefore]
    listed,     \* keystores loaded: [input, certs, keys], the listings in order
    warnings,   \* inputs for which the PKCS12 warning was written
    rets        \* what readCertsFromStream returned: [input, err]

vars ==
    <<inputs, hint, fromFiles, x509Mode, pc, idx, format, pos, store, ci, ki,
      result, detected, emitted, consumed, pwCalls, listed, warnings, rets>>

config == <<inputs, hint, fromFiles, x509Mode>>

NoStore == [certs |-> <<>>, keys |-> <<>>]

RECURSIVE Flatten(_)
Flatten(ss) == IF ss = <<>> THEN <<>> ELSE Head(ss) \o Flatten(Tail(ss))

\* file.Name() for the FromFiles readers, "" for the stream readers.
FileName(i) == IF fromFiles THEN inputs[i].name ELSE EmptyString

InitState ==
    /\ pc = "loop"
    /\ idx = 1
    /\ format = ""
    /\ pos = 0
    /\ store = NoStore
    /\ ci = 0
    /\ ki = 0
    /\ result = "running"
    /\ detected = <<>>
    /\ emitted = <<>>
    /\ consumed = <<>>
    /\ pwCalls = <<>>
    /\ listed = <<>>
    /\ warnings = <<>>
    /\ rets = <<>>

InputLists == UNION {[1..n -> Catalogue] : n \in 1..MaxInputs}

Init ==
    /\ inputs \in InputLists
    /\ hint \in Hints
    /\ fromFiles \in BOOLEAN
    /\ x509Mode \in BOOLEAN
    /\ InitState

\* ----------------------------------------------------------- the loop

\* The readers' loop header and formatForFile call (lines 70-75 and alike).
Detect ==
    /\ pc = "loop"
    /\ idx <= Len(inputs)
    /\ LET r == formatForFile(inputs[idx].prefix, FileName(idx), hint)
       IN  /\ detected' = Append(detected, r)
           /\ IF r.err
              THEN /\ result' = "error"
                   /\ pc' = "done"
                   /\ format' = format
              ELSE /\ result' = result
                   /\ pc' = "decode"
                   /\ format' = r.format
    /\ UNCHANGED <<config, idx, pos, store, ci, ki, emitted, consumed, pwCalls,
                   listed, warnings, rets>>

\* The loop ends: return nil.
Finish ==
    /\ pc = "loop"
    /\ idx > Len(inputs)
    /\ result' = "nil"
    /\ pc' = "done"
    /\ UNCHANGED <<config, idx, format, pos, store, ci, ki, detected, emitted,
                   consumed, pwCalls, listed, warnings, rets>>

\* The readers with `if err != nil { return err }` after the call.
CallerStopsOn_Errors(err) == err # "nil"

\* Whether the reader stops on readCertsFromStream's return value: the four
\* readers call it as a statement and drop the value.
CallerStopsOn(err) == FALSE

\* readCertsFromStream returns err to the reader's loop.
Return(err) ==
    /\ rets' = Append(rets, [input |-> idx, err |-> err])
    /\ IF CallerStopsOn(err)
       THEN /\ result' = "error"
            /\ pc' = "done"
            /\ idx' = idx
       ELSE /\ result' = result
            /\ pc' = "loop"
            /\ idx' = idx + 1
    /\ format' = ""
    /\ pos' = 0
    /\ store' = NoStore
    /\ ci' = 0
    /\ ki' = 0

\* callback(block) for each of blocks, in order.
Callback(blocks) ==
    /\ emitted' = emitted \o [i \in 1..Len(blocks) |-> [input |-> idx, block |-> blocks[i]]]
    /\ consumed' =
         IF x509Mode
         THEN consumed \o
              LET cs == Flatten([i \in 1..Len(blocks) |-> pemToX509(blocks[i])])
              IN  [i \in 1..Len(cs) |-> [input |-> idx, cert |-> cs[i]]]
         ELSE consumed

\* password("") whatever the alias.
AskPassword_StoreOnly(alias, pw) ==
    pwCalls' = Append(pwCalls, [input |-> idx, alias |-> EmptyString, answer |-> pw,
                                emittedBefore |-> Len(emitted)])

\* password(alias), answering pw.
AskPassword(alias, pw) ==
    pwCalls' = Append(pwCalls, [input |-> idx, alias |-> alias, answer |-> pw,
                                emittedBefore |-> Len(emitted)])

\* ------------------------------------------------------- the decoders

\* case "PEM": one turn of `for scanner.Scan()`; when Scan returns false the
\* switch is left and the function's last statement returns the
\* "unknown file type" error.
DecodePEM ==
    /\ pc = "decode"
    /\ format = "PEM"
    /\ LET in == inputs[idx]
           s == Scan(SubSeq(in.segs, pos + 1, Len(in.segs)))
           block == pemDecode(s.token).block
       IN  IF s.ok
           THEN /\ Callback(<<[block EXCEPT
                                 !.Headers = mergeHeaders(block.Headers,
                                                          InitialHeaders(FileName(idx)))]>>)
                /\ pos' = pos + s.advance
                /\ UNCHANGED <<pc, idx, format, store, ci, ki, result, rets>>
           ELSE /\ Return("unknown file type")
                /\ UNCHANGED <<emitted, consumed>>
    /\ UNCHANGED <<config, detected, pwCalls, listed, warnings>>

\* case "DER"
DecodeDER ==
    /\ pc = "decode"
    /\ format = "DER"
    /\ \E readFails \in BOOLEAN :
         LET in == inputs[idx]
             headers == InitialHeaders(FileName(idx))
         IN  IF readFails
             THEN /\ Return("error reading input")
                  /\ UNCHANGED <<emitted, consumed>>
             ELSE IF in.x509.ok
             THEN /\ Callback([i \in 1..Len(in.x509.certs) |->
                                 EncodeX509ToPEM(Cert(in.x509.certs[i]), headers)])
                  /\ Return("nil")
             ELSE IF in.p7.ok
             THEN /\ Callback([i \in 1..Len(in.p7.envs) |->
                                 pkcs7ToPem([Raw |-> in.p7.envs[i]], headers)])
                  /\ Return("nil")
             ELSE /\ Return("error parsing certificates from DER data")
                  /\ UNCHANGED <<emitted, consumed>>
    /\ UNCHANGED <<config, detected, pwCalls, listed, warnings>>

\* pkcs12.ToPEM(data, password): the blocks, none on an error.
ToPEM(p12, password) ==
    IF p12.ok /\ password = p12.password
    THEN [err |-> FALSE, blocks |-> p12.blocks]
    ELSE [err |-> TRUE, blocks |-> <<>>]

\* case "PKCS12"
DecodePKCS12 ==
    /\ pc = "decode"
    /\ format = "PKCS12"
    /\ \E readFails \in BOOLEAN, pw \in Passwords :
         LET in == inputs[idx]
             headers == InitialHeaders(FileName(idx))
             r == ToPEM(in.p12, pw)
         IN  IF readFails
             THEN /\ Return("error reading input")
                  /\ UNCHANGED <<emitted, consumed, pwCalls, warnings>>
             ELSE /\ AskPassword(EmptyString, pw)
                  /\ warnings' = IF r.err \/ Len(r.blocks) = 0
                                 THEN Append(warnings, idx)
                                 ELSE warnings
                  /\ Callback([i \in 1..Len(r.blocks) |->
                                 [r.blocks[i] EXCEPT
                                    !.Headers = mergeHeaders(r.blocks[i].Headers, headers)]])
                  /\ Return("unknown file type")
    /\ UNCHANGED <<config, detected, listed>>

\* case "JCEKS": password("") and jceks.LoadFromReader; on success the two
\* listings are taken in the order the store gives them.  A stream that
\* cannot be read, a stream that is no keystore and a wrong password all end
\* in the same "error parsing keystore".
LoadJCEKS ==
    /\ pc = "decode"
    /\ format = "JCEKS"
    /\ \E pw \in Passwords :
         LET ks == inputs[idx].ks
         IN  /\ AskPassword(EmptyString, pw)
             /\ IF ~ks.ok \/ pw # ks.password
                THEN /\ Return("error parsing keystore")
                     /\ listed' = listed
                ELSE \E oc \in Orders(Len(ks.certs)), ok \in Orders(Len(ks.keys)) :
                       /\ store' = [certs |-> [i \in 1..Len(ks.certs) |-> ks.certs[oc[i]]],
                                    keys |-> [i \in 1..Len(ks.keys) |-> ks.keys[ok[i]]]]
                       /\ listed' = Append(listed, [input |-> idx, certs |-> store'.certs,
                                                    keys |-> store'.keys])
                       /\ pc' = "jceks"
                       /\ UNCHANGED <<idx, format, pos, ci, ki, result, rets>>
    /\ UNCHANGED <<config, detected, emitted, consumed, warnings>>

\* One turn of `for _, alias := range keyStore.ListCerts()`.
EmitJCEKSCert ==
    /\ pc = "jceks"
    /\ ci < Len(store.certs)
    /\ LET e == store.certs[ci + 1]
       IN  Callback(<<EncodeX509ToPEM(e.cert,
                        mergeHeaders(InitialHeaders(FileName(idx)),
                                     Header(nameHeader, e.alias)))>>)
    /\ ci' = ci + 1
    /\ UNCHANGED <<config, pc, idx, format, pos, store, ki, result, detected,
                   pwCalls, listed, warnings, rets>>

\* One turn of `for _, alias := range keyStore.ListPrivateKeys()`.
EmitJCEKSKey ==
    /\ pc = "jceks"
    /\ ci = Len(store.certs)
    /\ ki < Len(store.keys)
    /\ LET e == store.keys[ki + 1]
           headers == mergeHeaders(InitialHeaders(FileName(idx)),
                                   Header(nameHeader, e.alias))
           k == keyToPem(e.key, headers)
       IN  \E pw \in Passwords :
             /\ AskPassword(e.alias, pw)
             /\ IF pw # e.password
                THEN /\ Return("error parsing keystore")
                     /\ UNCHANGED <<emitted, consumed>>
                ELSE IF k.err
                THEN /\ Return("error reading key")
                     /\ UNCHANGED <<emitted, consumed>>
                ELSE /\ Callback(<<k.block>> \o
                                 [i \in 1..Len(e.chain) |->
                                    EncodeX509ToPEM(e.chain[i], headers)])
                     /\ ki' = ki + 1
                     /\ UNCHANGED <<pc, idx, format, pos, store, ci, result, rets>>
    /\ UNCHANGED <<config, detected, listed, warnings>>

\* Both JCEKS loops are done: the switch is left and the last statement
\* returns the "unknown file type" error.
FinishJCEKS ==
    /\ pc = "jceks"
    /\ ci = Len(store.certs)
    /\ ki = Len(store.keys)
    /\ Return("unknown file type")
    /\ UNCHANGED <<config, detected, emitted, consumed, pwCalls, listed, warnings>>

\* No case of the switch matches the format.
DecodeOther ==
    /\ pc = "decode"
    /\ format \notin SupportedFormats
    /\ Return("unknown file type")
    /\ UNCHANGED <<config, detected, emitted, consumed, pwCalls, listed, warnings>>

Next ==
    \/ Detect
    \/ Finish
    \/ DecodePEM
    \/ DecodeDER
    \/ DecodePKCS12
    \/ LoadJCEKS
    \/ EmitJCEKSCert
    \/ EmitJCEKSKey
    \/ FinishJCEKS
    \/ DecodeOther

Spec == Init /\ [][Next]_vars

\* ------------------------------------------- format detection alone

\* The byte values the magic-number tests tell apart, and two they do not.
MagicBytes == {0, 3, 45, 48, 67, 78, 79, 130, 206, 237, 254}

Prefixes == UNION {[1..n -> MagicBytes] : n \in 0..4}

\* A few prefixes, one of each kind, to go with every name and hint.
SomePrefixes ==
    {<<>>, <<48, 130, 3>>, <<206, 206, 206, 206>>, <<45, 45, 45, 45>>,
     <<48, 130, 3, 0>>, <<48, 130, 0, 3>>, <<0, 0, 0, 0>>}

ProbeNames ==
    {<<"t">>,
     <<"d",".","p","e","m","/","e">>,
     <<"a",".","p","e","m">>,
     <<"A",".","P","e","M">>,
     <<"b",".","c","r","t">>,
     <<"b",".","p","7","b">>,
     <<"b",".","P","7","C">>,
     <<"s",".","p","1","2">>,
     <<"s",".","p","f","x">>,
     <<"k",".","j","c","e","k","s">>,
     <<"k",".","J","K","S">>,
     <<"c",".","t","a","r",".","d","e","r">>,
     <<"d","e","r">>,
     <<"x",".","p","e","m",".","t","x","t">>}

Probe(name, prefix) == Input(name, prefix, <<Junk(1)>>, NoX509, NoP7, NoP12, NoKeyStore)

InitDetect ==
    /\ \/ /\ inputs \in {<<Probe(n, p)>> : n \in {<<"t">>, <<"d",".","p","e","m","/","e">>},
                                           p \in Prefixes}
          /\ hint = ""
          /\ fromFiles = TRUE
       \/ /\ inputs \in {<<Probe(n, p)>> : n \in ProbeNames, p \in SomePrefixes}
          /\ hint \in Hints \cup {"PEM"}
          /\ fromFiles \in BOOLEAN
    /\ x509Mode = FALSE
    /\ InitState

NextDetect == Detect

SpecDetect == InitDetect /\ [][NextDetect]_vars

\* ------------------------------------------------------- the claims

\* The probe and catalogue names whose lowercased extension is in the
\* extension table, with the table's format, written out name by name.
NamedFormats ==
    { <<<<"a",".","p","e","m">>, "PEM">>,
      <<<<"A",".","P","e","M">>, "PEM">>,
      <<<<"b","i","g",".","p","e","m">>, "PEM">>,
      <<<<"b",".","c","r","t">>, "PEM">>,
      <<<<"b",".","p","7","b">>, "PEM">>,
      <<<<"b",".","P","7","C">>, "PEM">>,
      <<<<"s",".","p","1","2">>, "PKCS12">>,
      <<<<"s",".","p","f","x">>, "PKCS12">>,
      <<<<"k",".","j","c","e","k","s">>, "JCEKS">>,
      <<<<"k",".","J","K","S">>, "JCEKS">>,
      <<<<"C",".","D","E","R">>, "DER">>,
      <<<<"c",".","t","a","r",".","d","e","r">>, "DER">> }

HasTableExtension(name) == \E p \in NamedFormats : p[1] = name

TableFormat(name) == (CHOOSE p \in NamedFormats : p[1] = name)[2]

\* C3: formatForFile resolves by strict precedence: a non-empty hint is
\* returned verbatim whatever the name and the bytes; otherwise a name whose
\* lowercased extension is in the table yields the table's format whatever the
\* bytes, and the stream is not read; only otherwise are the first bytes
\* inspected.
C3_Precedence ==
    \A i \in 1..Len(detected) :
        LET r == detected[i]
            n == FileName(i)
        IN  /\ hint # "" => r = [format |-> hint, err |-> FALSE, peeked |-> FALSE]
            /\ (hint = "" /\ HasTableExtension(n)) =>
                  r = [format |-> TableFormat(n), err |-> FALSE, peeked |-> FALSE]
            /\ r.peeked <=> (hint = "" /\ ~HasTableExtension(n))

\* A .pem name (in capitals) over DER-looking bytes resolved to PEM, unread.
C3_Witness ==
    /\ Len(detected) = 1
    /\ hint = ""
    /\ FileName(1) = <<"A",".","P","e","M">>
    /\ inputs[1].prefix = <<48, 130, 3, 0>>
    /\ detected[1].format = "PEM"
    /\ ~detected[1].peeked

\* What the magic-number table of the claim gives for four bytes, the DER
\* test being on byte `derByte` (1-based), and "" for no match.
TableGuess(b, derByte) ==
    IF b = <<206, 206, 206, 206>> \/ b = <<254, 237, 254, 237>> THEN "JCEKS"
    ELSE IF b = <<45, 45, 45, 45>> \/ b = <<67, 79, 78, 78>> THEN "PEM"
    ELSE IF b[1] = 48 /\ b[2] = 130 /\ b[derByte] = 3 THEN "DER"
    ELSE IF b[1] = 48 /\ b[2] = 130 THEN "PKCS12"
    ELSE ""

SniffedAs(derByte) ==
    \A i \in 1..Len(detected) :
        (detected[i].peeked /\ Len(inputs[i].prefix) = 4) =>
            /\ detected[i].format = TableGuess(inputs[i].prefix, derByte)
            /\ detected[i].err <=> TableGuess(inputs[i].prefix, derByte) = ""

\* C4, as stated: with no hint and no recognised extension, 0xCECECECE and
\* 0xFEEDFEED resolve to JCEKS, 0x2D2D2D2D and 0x434F4E4E to PEM, 0x3082xx03
\* (fourth byte 0x03) to DER, any other 0x3082xxxx to PKCS12, and every other
\* value fails detection.
C4_Original == SniffedAs(4)

\* C4, amended: as above, but DER is 0x308203xx -- the third byte is 0x03,
\* the fourth is free.
C4_Amended == SniffedAs(3)

\* 0x30820003 was sniffed and is PKCS12; 0x30820300 would be DER.
C4_Witness ==
    /\ Len(detected) = 1
    /\ detected[1].peeked
    /\ inputs[1].prefix = <<48, 130, 0, 3>>
    /\ detected[1].format = "PKCS12"

\* ---- helpers of the batch claims

EmittedFor(i) == SelectSeq(emitted, LAMBDA e : e.input = i)

ConsumedFor(i) == SelectSeq(consumed, LAMBDA e : e.input = i)

CallsFor(i) == SelectSeq(pwCalls, LAMBDA c : c.input = i)

\* How often the caller's consumer was invoked for input i.
ConsumerCalls(i) == IF x509Mode THEN Len(ConsumedFor(i)) ELSE Len(EmittedFor(i))

IsPrefix(a, b) == Len(a) <= Len(b) /\ a = SubSeq(b, 1, Len(a))

\* The errors readCertsFromStream returns from inside a decoder.
DecoderErrors ==
    {"error reading input", "error parsing certificates from DER data",
     "error parsing keystore", "error reading key"}

\* C1, as stated: once the decoder of input i reports a fatal error,
\* processing stops at once, the reader returns a non-nil error, and the
\* consumer is never invoked for a later input.
C1_Claim ==
    \A k \in 1..Len(rets) :
        rets[k].err \in DecoderErrors =>
            /\ result = "error"
            /\ idx = rets[k].input
            /\ \A j \in (rets[k].input + 1)..Len(inputs) : ConsumerCalls(j) = 0

\* C2: an input with no hint, no table extension and fewer than four bytes
\* to peek fails detection; the reader returns an error, and the consumer is
\* invoked neither for it nor for any later input.
C2_PeekFailureAborts ==
    \A i \in 1..Len(detected) :
        (hint = "" /\ ~HasTableExtension(FileName(i)) /\ Len(inputs[i].prefix) < 4) =>
            /\ detected[i].err
            /\ result = "error"
            /\ pc = "done"
            /\ Len(detected) = i
            /\ Len(rets) = i - 1
            /\ \A j \in i..Len(inputs) : ConsumerCalls(j) = 0 /\ EmittedFor(j) = <<>>

\* The second input was too short to sniff, after the first had been emitted.
C2_Witness ==
    /\ Len(inputs) = 2
    /\ Len(detected) = 2
    /\ hint = ""
    /\ Len(inputs[2].prefix) < 4
    /\ detected[2].err
    /\ ConsumerCalls(1) > 0
    /\ result = "error"

\* C5: a PKCS12 input whose decode fails gives no consumer call and a warning,
\* and does not stop the batch: the loop goes on to the next input, every
\* later input is detected and (when detection succeeds) decoded, and an
\* error result can only come from a later input's detection.
PKCS12Failed(i) ==
    /\ i <= Len(rets)
    /\ detected[i].format = "PKCS12"
    /\ \E k \in 1..Len(pwCalls) :
          /\ pwCalls[k].input = i
          /\ ~inputs[i].p12.ok \/ pwCalls[k].answer # inputs[i].p12.password

C5_PKCS12FailureContinues ==
    \A i \in 1..Len(rets) :
        PKCS12Failed(i) =>
            /\ EmittedFor(i) = <<>>
            /\ ConsumedFor(i) = <<>>
            /\ \E w \in 1..Len(warnings) : warnings[w] = i
            /\ idx > i
            /\ result = "error" => (Len(detected) > Len(rets) /\ detected[Len(detected)].err)
            /\ pc = "done" =>
                  /\ i < Len(inputs) => Len(detected) > i
                  /\ result = "nil" => Len(rets) = Len(inputs)

\* A PKCS12 store opened with the wrong password, then an input that was
\* emitted.
C5_Witness ==
    /\ Len(inputs) = 2
    /\ PKCS12Failed(1)
    /\ inputs[1].p12.ok
    /\ ConsumerCalls(2) > 0
    /\ pc = "done"
    /\ result = "nil"

\* A block as the JCEKS claim looks at it: certificate or key, its
\* friendlyName, the certificate or key inside.
Shape(kind, alias, ids) == [kind |-> kind, alias |-> alias, ids |-> ids]

ShapeOf(block) ==
    Shape(IF block.Type = "CERTIFICATE" THEN "cert"
          ELSE IF block.Type \in {"RSA PRIVATE KEY", "EC PRIVATE KEY"} THEN "key"
          ELSE "other",
          IF nameHeader \in DOMAIN block.Headers THEN block.Headers[nameHeader] ELSE <<"?">>,
          block.Bytes.ids)

RECURSIVE KeyShapes(_)
\* For each key entry: its key block, then its chain.
KeyShapes(keys) ==
    IF keys = <<>> THEN <<>>
    ELSE LET e == Head(keys)
         IN  <<Shape("key", e.alias, <<e.key.id>>)>>
             \o [k \in 1..Len(e.chain) |-> Shape("cert", e.alias, e.chain[k].Raw.ids)]
             \o KeyShapes(Tail(keys))

\* The whole emission of a keystore with the listings of l.
StoreShapes(l) ==
    [k \in 1..Len(l.certs) |-> Shape("cert", l.certs[k].alias, l.certs[k].cert.Raw.ids)]
    \o KeyShapes(l.keys)

Completed(i) == i <= Len(rets) /\ rets[i].err = "unknown file type"

\* C6: a JCEKS input emits one CERTIFICATE block per certificate alias, in
\* listing order, before any key block; then per private-key alias, in
\* listing order, one key block followed by the alias's chain in chain order;
\* every block carries the alias as friendlyName.  A decode cut short by a
\* fatal error has emitted a prefix of that sequence; a keystore that did not
\* load has emitted nothing.
C6_JCEKSOrder ==
    /\ \A k \in 1..Len(listed) :
          LET i == listed[k].input
              E == [n \in 1..Len(EmittedFor(i)) |-> ShapeOf(EmittedFor(i)[n].block)]
          IN  /\ IsPrefix(E, StoreShapes(listed[k]))
              /\ Completed(i) => E = StoreShapes(listed[k])
    /\ \A i \in 1..Len(rets) :
          (detected[i].format = "JCEKS" /\ \A k \in 1..Len(listed) : listed[k].input # i)
              => EmittedFor(i) = <<>>

\* k.jceks was decoded to the end: two certificates, then a key with a chain
\* of two and a key with a chain of one.
C6_Witness ==
    /\ \E k \in 1..Len(listed) :
          /\ Completed(listed[k].input)
          /\ Len(listed[k].certs) = 2
          /\ Len(listed[k].keys) = 2
          /\ Len(listed[k].keys[1].chain) = 2
          /\ Len(EmittedFor(listed[k].input)) = 7

Aliases(calls) == [k \in 1..Len(calls) |-> calls[k].alias]

KeyAliases(l) == [k \in 1..Len(l.keys) |-> l.keys[k].alias]

\* Emissions made before the decode of input i began.
EmittedBeforeInput(i) == Len(SelectSeq(emitted, LAMBDA e : e.input < i))

ListingOf(i) == listed[CHOOSE k \in 1..Len(listed) : listed[k].input = i]

IsListed(i) == \E k \in 1..Len(listed) : listed[k].input = i

BlocksOf(segs) ==
    LET bs == SelectSeq(segs, LAMBDA g : g.isBlock)
    IN  [k \in 1..Len(bs) |-> bs[k].block]

\* C8, as stated: a named, non-stdin PEM input of n well-formed blocks gives
\* exactly n consumer calls, in file order, one block each, every block with
\* originFile equal to the input's name.
C8_Claim ==
    \A i \in 1..Len(rets) :
        (detected[i].format = "PEM" /\ FileName(i) # EmptyString /\ FileName(i) # StdinName) =>
            LET E == EmittedFor(i)
                B == BlocksOf(inputs[i].segs)
            IN  /\ Len(E) = Len(B)
                /\ \A k \in 1..Len(E) :
                      /\ E[k].block.Type = B[k].Type
                      /\ E[k].block.Bytes = B[k].Bytes
                      /\ fileHeader \in DOMAIN E[k].block.Headers
                      /\ E[k].block.Headers[fileHeader] = FileName(i)

\* The certificates the claim expects from one emitted block.
CertsOf(e) ==
    IF e.block.Type = "CERTIFICATE" /\ e.block.Bytes.der = "x509"
    THEN <<[input |-> e.input, cert |-> [Raw |-> e.block.Bytes]]>>
    ELSE IF e.block.Type = "PKCS7" /\ e.block.Bytes.der = "p7"
    THEN [k \in 1..Len(e.block.Bytes.ids) |->
            [input |-> e.input, cert |-> [Raw |-> Bytes("x509", <<e.block.Bytes.ids[k]>>)]]]
    ELSE <<>>

\* C9: in ReadX509 / ReadX509FromFiles the certificate consumer is invoked
\* once per certificate, in block emission order: once per CERTIFICATE block
\* that parses, once per certificate (in envelope order) of a PKCS7 block
\* that parses, never for another block type; a block that fails to parse
\* gives no call and no error.
C9_X509Consumer ==
    x509Mode => consumed = Flatten([n \in 1..Len(emitted) |-> CertsOf(emitted[n])])

\* A certificate reader went through a key block, a PKCS7 bundle of two, and
\* CERTIFICATE and PKCS7 blocks that do not parse.
C9_Witness ==
    /\ x509Mode
    /\ pc = "done"
    /\ result = "nil"
    /\ \E n \in 1..Len(emitted) : emitted[n].block.Type = "RSA PRIVATE KEY"
    /\ \E n \in 1..Len(emitted) :
          emitted[n].block.Type = "PKCS7" /\ Len(CertsOf(emitted[n])) = 2
    /\ \E n \in 1..Len(emitted) :
          emitted[n].block.Type = "CERTIFICATE" /\ CertsOf(emitted[n]) = <<>>
    /\ \E n \in 1..Len(emitted) :
          emitted[n].block.Type = "PKCS7" /\ CertsOf(emitted[n]) = <<>>
    /\ Len(consumed) >= 3

\* C10, as stated: readCertsFromStream returns the "unknown file type" error
\* exactly when the format is none of PEM, DER, PKCS12, JCEKS, and then the
\* error ends the batch; a supported format decoded without failure returns
\* no error.
C10_Claim ==
    \A k \in 1..Len(rets) :
        LET f == detected[rets[k].input].format
        IN  /\ rets[k].err = "unknown file type" <=> f \notin SupportedFormats
            /\ rets[k].err = "unknown file type" => (result = "error" /\ idx = rets[k].input)
            /\ (f \in SupportedFormats /\ rets[k].err \notin DecoderErrors) => rets[k].err = "nil"

=============================================================================
